---- MODULE Spec2Model ----
(***************************************************************************)
(* Model of the three CI security scripts of PayRox Go Beyond:             *)
(*   .github/security/process-slither.py                                   *)
(*   .github/security/process-mythril.py                                   *)
(*   .github/security/generate-security-summary.py                         *)
(* The state is the filesystem the scripts share (the Slither report, the  *)
(* Mythril reports directory, the artifacts the processors write) plus,    *)
(* for each script, the values of its last run (locals of main, the line   *)
(* main ended on, the exit status).  Each script is one action: a whole    *)
(* run of its main().                                                      *)
(*                                                                         *)
(* A JSON object is a function from the keys it has to their values, so a  *)
(* missing key is a key outside the DOMAIN; dict.get(k, d) is Get and      *)
(* d[k] raises KeyError when k is missing.  File contents are the shapes   *)
(* the producing tool writes, with every key optional; a file may also be  *)
(* absent or not valid JSON.  The directories written to are writable.     *)
(* An uncaught exception ends a run with a traceback and exit status 1.    *)
(***************************************************************************)
EXTENDS Integers, Sequences, FiniteSets, TLC

\* ------------------------------------------------------------------------
\* Bounds of the model
\* ------------------------------------------------------------------------
MaxDetectors == 2
MaxIssues == 1
MaxCritical == 5
MaxSummary == 7
MaxTime == 2

\* ------------------------------------------------------------------------
\* Python / JSON helpers
\* ------------------------------------------------------------------------
NoKey == "<no key>"

EmptyDict == [k \in {} |-> ""]

\* the dict holding the keys of r whose value is not NoKey
MkDict(r) == [k \in {x \in DOMAIN r : r[x] # NoKey} |-> r[k]]

Has(d, k) == k \in DOMAIN d

Get(d, k, default) == IF k \in DOMAIN d THEN d[k] ELSE default

\* str.lower() on the labels of the model
Lower(s) ==
  CASE s = "High" -> "high"
    [] s = "HIGH" -> "high"
    [] s = "Medium" -> "medium"
    [] s = "MEDIUM" -> "medium"
    [] s = "Low" -> "low"
    [] s = "LOW" -> "low"
    [] s = "Informational" -> "informational"
    [] s = "Critical" -> "critical"
    [] OTHER -> s

\* a file of the filesystem: not there, there but not valid JSON, or JSON
AbsentFile == [kind |-> "absent"]
GarbageFile == [kind |-> "garbage"]
JsonObject(v) == [kind |-> "json", type |-> "object", value |-> v]
JsonArray(v) == [kind |-> "json", type |-> "array", value |-> v]

\* key in data, for the parsed content of a JSON file: an array of objects
\* has no element equal to a string
InJson(key, file) == file.type = "object" /\ key \in DOMAIN file.value

\* a file written with f.write calls: the sequence of the writes
TextFile(ls) == [kind |-> "text", lines |-> ls]

Exists(f) == f.kind # "absent"

\* one f.write call: what it writes (t), with the values formatted into it
Line(t, n, x, y) == [t |-> t, n |-> n, x |-> x, y |-> y]

\* bounded set of the sequences over S of length at most n
SeqUpTo(S, n) == UNION {[1..k -> S] : k \in 0..n}

\* ------------------------------------------------------------------------
\* process-slither.py
\* ------------------------------------------------------------------------
Impacts == {"High", "Medium", "low", "Informational", NoKey}
Confidences == {"high", "HIGH", "Medium", "Low", NoKey}
Checks == {"reentrancy-eth", NoKey}
Descriptions == {"Reentrancy in pay()", NoKey}

\* the detector records a report may hold (at most one of check and
\* description is missing)
Detectors ==
  {MkDict([impact |-> i, confidence |-> c, check |-> ch, description |-> de]) :
     i \in Impacts, c \in Confidences,
     <<ch, de>> \in {p \in Checks \X Descriptions : p[1] # NoKey \/ p[2] # NoKey}}

\* the contents the report file may have
SlitherReports ==
  {AbsentFile, GarbageFile, JsonObject(EmptyDict),
   JsonObject([results |-> EmptyDict])}
  \cup {JsonObject([results |-> [detectors |-> ds]]) :
          ds \in SeqUpTo(Detectors, MaxDetectors)}

EmptyCategories ==
  [critical |-> <<>>, high |-> <<>>, medium |-> <<>>, low |-> <<>>,
   informational |-> <<>>]

\* load_slither_report: any exception (no file, invalid JSON) gives {}
load_slither_report(file) ==
  IF file.kind = "json" THEN file.value ELSE EmptyDict

\* TierOfDetector with the low rule tested before the medium rule
TierOfDetector_LowFirst(detector) ==
  LET impact == Lower(Get(detector, "impact", ""))
      confidence == Lower(Get(detector, "confidence", ""))
  IN  IF impact = "high" /\ confidence = "high" THEN "critical"
      ELSE IF \/ (impact = "high" /\ confidence = "medium")
              \/ (impact = "medium" /\ confidence = "high") THEN "high"
      ELSE IF impact = "low" \/ confidence = "low" THEN "low"
      ELSE IF \/ (impact = "medium" /\ confidence = "medium")
              \/ (impact = "high" /\ confidence = "low") THEN "medium"
      ELSE "informational"

\* the if/elif chain of categorize_findings: the tier of one detector
TierOfDetector(detector) ==
  LET impact == Lower(Get(detector, "impact", ""))
      confidence == Lower(Get(detector, "confidence", ""))
  IN  IF impact = "high" /\ confidence = "high" THEN "critical"
      ELSE IF \/ (impact = "high" /\ confidence = "medium")
              \/ (impact = "medium" /\ confidence = "high") THEN "high"
      ELSE IF \/ (impact = "medium" /\ confidence = "medium")
              \/ (impact = "high" /\ confidence = "low") THEN "medium"
      ELSE IF impact = "low" \/ confidence = "low" THEN "low"
      ELSE "informational"

\* the for loop of categorize_findings
RECURSIVE CategorizeLoop(_, _)
CategorizeLoop(detectors, categories) ==
  IF detectors = <<>> THEN categories
  ELSE LET detector == Head(detectors)
           tier == TierOfDetector(detector)
       IN  CategorizeLoop(Tail(detectors),
             [categories EXCEPT ![tier] = Append(@, detector)])

\* categorize_findings: raised is the KeyError of results['results']['detectors']
categorize_findings(results) ==
  IF ~Has(results, "results")
  THEN [raised |-> FALSE, categories |-> EmptyCategories]
  ELSE IF ~Has(results["results"], "detectors")
  THEN [raised |-> TRUE, categories |-> EmptyCategories]
  ELSE [raised |-> FALSE,
        categories |-> CategorizeLoop(results["results"]["detectors"],
                                      EmptyCategories)]

TotalFindings(categories) ==
  Len(categories["critical"]) + Len(categories["high"])
  + Len(categories["medium"]) + Len(categories["low"])
  + Len(categories["informational"])

\* a part of a file being written: the writes done, and whether an
\* exception ended them
Written(ls) == [lines |-> ls, raised |-> FALSE]

Then(a, b) ==
  IF a.raised THEN a
  ELSE [lines |-> a.lines \o b.lines, raised |-> b.raised]

\* for finding in ...: f.write(f"- **{finding['check']}**: {finding['description']}\n")
RECURSIVE WriteFindings(_)
WriteFindings(findings) ==
  IF findings = <<>> THEN Written(<<>>)
  ELSE LET finding == Head(findings)
       IN  IF ~(Has(finding, "check") /\ Has(finding, "description"))
           THEN [lines |-> <<>>, raised |-> TRUE]
           ELSE Then(Written(<<Line("finding", 0, finding["check"],
                                    finding["description"])>>),
                     WriteFindings(Tail(findings)))

\* one of the critical / high / medium blocks of the summary
FindingsBlock(tier, findings) ==
  IF findings = <<>> THEN Written(<<>>)
  ELSE Then(Written(<<Line("count", Len(findings), tier, "")>>),
       Then(WriteFindings(findings),
            Written(<<Line("blank", 0, "", "")>>)))

\* generate_summary_markdown: the writes to slither-summary.md
generate_summary_markdown(categories) ==
  LET total_findings == TotalFindings(categories)
      header == Written(<<Line("title", 0, "", "")>>)
  IN  IF total_findings = 0
      THEN Then(header, Written(<<Line("no_issues", 0, "", ""),
                                  Line("passed", 0, "", "")>>))
      ELSE
        Then(header,
        Then(Written(<<Line("total", total_findings, "", "")>>),
        Then(FindingsBlock("critical", categories["critical"]),
        Then(FindingsBlock("high", categories["high"]),
        Then(FindingsBlock("medium", categories["medium"]),
        Then(Written(IF categories["low"] # <<>>
                     THEN <<Line("count", Len(categories["low"]), "low", ""),
                            Line("low_note", Len(categories["low"]), "", "")>>
                     ELSE <<>>),
        Then(Written(<<Line("recommendations", 0, "", "")>>),
        Then(Written(IF categories["critical"] # <<>>
                     THEN <<Line("recommend", 1, "", "")>> ELSE <<>>),
        Then(Written(IF categories["high"] # <<>>
                     THEN <<Line("recommend", 2, "", "")>> ELSE <<>>),
        Then(Written(IF categories["medium"] # <<>>
                     THEN <<Line("recommend", 3, "", "")>> ELSE <<>>),
             Written(<<Line("footer", 0, "", "")>>)))))))))))

\* save_critical_issues dumping the high tier after the critical one
save_critical_issues_WithHigh(categories) ==
  JsonArray(categories["critical"] \o categories["high"])

\* save_critical_issues: json.dump(categories['critical'])
save_critical_issues(categories) == JsonArray(categories["critical"])

\* ExitCode failing the build on high findings too
ExitCode_HighToo(categories) ==
  IF categories["critical"] # <<>> \/ categories["high"] # <<>> THEN 1 ELSE 0

\* ExitCode that never fails the build
ExitCode_NeverFails(categories) == 0

\* the end of main: sys.exit(1) if categories['critical'] else sys.exit(0)
ExitCode(categories) == IF categories["critical"] # <<>> THEN 1 ELSE 0

\* ------------------------------------------------------------------------
\* process-mythril.py
\* ------------------------------------------------------------------------
Severities == {"High", "Medium", "Low", "Critical", "high", NoKey}

\* an issue with all the fields the processor reads, or with severity only
FullIssue(sev) ==
  MkDict([severity |-> sev, title |-> "Integer Overflow",
          description |-> "The arithmetic operation can overflow",
          filename |-> "contracts/Pay.sol", function |-> "pay()",
          swc_id |-> "101"])

BareIssue(sev) == MkDict([severity |-> sev])

\* the issue records a Mythril report may hold (the key swc-id of the JSON
\* is written swc_id)
Issues == {FullIssue(sev) : sev \in Severities}
          \cup {BareIssue(sev) : sev \in Severities}

\* the contents a Mythril report file may have
MythrilReports ==
  {AbsentFile, GarbageFile, JsonObject(EmptyDict)}
  \cup {JsonObject([issues |-> is]) : is \in SeqUpTo(Issues, MaxIssues)}

\* the names of the files of the reports directory
ReportNames == {"mythril-a.json", "mythril-b.json"}
DirNames == ReportNames \cup {"mythril-summary.json", "mythril-summary.md"}

\* the names the pattern mythril-*.json matches
GlobPattern == {"mythril-a.json", "mythril-b.json", "mythril-summary.json"}

\* glob.glob(pattern): the matching files of the directory, in any order
Glob(files) ==
  LET found == {n \in DirNames \cap GlobPattern : Exists(files[n])}
  IN  {o \in [1..Cardinality(found) -> found] :
         \A i, j \in DOMAIN o : i # j => o[i] # o[j]}

\* load_mythril_reports with the try around the whole loop: the first file
\* that fails to load ends the loading
RECURSIVE load_mythril_reports_AbortOnError(_, _, _)
load_mythril_reports_AbortOnError(files, paths, reports) ==
  IF paths = <<>> THEN reports
  ELSE LET data == files[Head(paths)]
       IN  IF data.kind # "json" THEN reports
           ELSE load_mythril_reports_AbortOnError(files, Tail(paths),
                  IF InJson("issues", data)
                  THEN reports \o data.value["issues"] ELSE reports)

\* load_mythril_reports: the loop over the paths glob returned; a file that
\* does not load is skipped with a warning
RECURSIVE load_mythril_reports(_, _, _)
load_mythril_reports(files, paths, reports) ==
  IF paths = <<>> THEN reports
  ELSE LET data == files[Head(paths)]
       IN  load_mythril_reports(files, Tail(paths),
             IF data.kind = "json" /\ InJson("issues", data)
             THEN reports \o data.value["issues"]
             ELSE reports)

EmptyMythrilCategories == [High |-> <<>>, Medium |-> <<>>, Low |-> <<>>]

\* GroupOfIssue comparing the label without regard to case
GroupOfIssue_IgnoreCase(issue) ==
  LET severity == Lower(Get(issue, "severity", "Low"))
  IN  IF severity = "high" THEN "High"
      ELSE IF severity = "medium" THEN "Medium"
      ELSE "Low"

\* the body of the loop of categorize_mythril_findings
GroupOfIssue(issue) ==
  LET severity == Get(issue, "severity", "Low")
  IN  IF severity \in DOMAIN EmptyMythrilCategories THEN severity ELSE "Low"

RECURSIVE categorize_mythril_findings(_, _)
categorize_mythril_findings(issues, cats) ==
  IF issues = <<>> THEN cats
  ELSE categorize_mythril_findings(Tail(issues),
         [cats EXCEPT ![GroupOfIssue(Head(issues))] = Append(@, Head(issues))])

\* the record generate_mythril_summary appends to all_issues
SummaryRecord(severity, issue) ==
  [severity |-> severity,
   title |-> Get(issue, "title", "Unknown Issue"),
   description |-> Get(issue, "description", ""),
   contract |-> Get(issue, "filename", "Unknown"),
   function |-> Get(issue, "function", "Unknown"),
   swc_id |-> Get(issue, "swc_id", "")]

SummaryRecords(severity, issues) ==
  [i \in 1..Len(issues) |-> SummaryRecord(severity, issues[i])]

\* AllIssues leaving out the issues of the Low group
AllIssues_WithoutLow(cats) ==
  SummaryRecords("High", cats["High"])
  \o SummaryRecords("Medium", cats["Medium"])

\* all_issues of generate_mythril_summary: categories.items() goes through
\* High, Medium, Low
AllIssues(cats) ==
  SummaryRecords("High", cats["High"])
  \o SummaryRecords("Medium", cats["Medium"])
  \o SummaryRecords("Low", cats["Low"])

\* filename.split('/')[-1] on the file names of the model
LastPathPart(s) ==
  CASE s = "contracts/Pay.sol" -> "Pay.sol"
    [] OTHER -> s

Min(a, b) == IF a < b THEN a ELSE b

\* the block of one severity in mythril-summary.md
SeverityBlock(severity, severity_issues) ==
  IF severity_issues = <<>> THEN <<>>
  ELSE <<Line("severity", Len(severity_issues), severity, "")>>
       \o [i \in 1..Min(5, Len(severity_issues)) |->
             Line("issue", 0, Get(severity_issues[i], "title", "Unknown Issue"),
                  LastPathPart(Get(severity_issues[i], "filename", "Unknown")))]
       \o (IF Len(severity_issues) > 5
           THEN <<Line("more", Len(severity_issues) - 5, "", "")>> ELSE <<>>)
       \o <<Line("blank", 0, "", "")>>

\* the writes of generate_mythril_summary to mythril-summary.md
MythrilMarkdown(cats) ==
  LET total_issues == Len(AllIssues(cats))
  IN  <<Line("title", 0, "", "")>>
      \o (IF total_issues = 0
          THEN <<Line("no_vulnerabilities", 0, "", ""),
                 Line("passed", 0, "", "")>>
          ELSE <<Line("total", total_issues, "", "")>>
               \o SeverityBlock("High", cats["High"])
               \o SeverityBlock("Medium", cats["Medium"])
               \o SeverityBlock("Low", cats["Low"])
               \o <<Line("notes", 0, "", ""), Line("note", 1, "", ""),
                    Line("note", 2, "", ""), Line("note", 3, "", ""),
                    Line("footer", 0, "", "")>>)

\* generate_mythril_summary: the directory with the two files written
generate_mythril_summary(files, cats) ==
  [files EXCEPT !["mythril-summary.json"] = JsonArray(AllIssues(cats)),
                !["mythril-summary.md"] = TextFile(MythrilMarkdown(cats))]

\* ------------------------------------------------------------------------
\* generate-security-summary.py
\* ------------------------------------------------------------------------
\* Python's None, where a parsed file is expected
None == [kind |-> "none"]

\* load_json_file: the parsed content, or None after any exception
load_json_file(file) == IF file.kind = "json" THEN file ELSE None

\* the text of a file read with f.read(), '' when it is not read
ReadText(file) == IF file.kind = "text" THEN file.lines ELSE <<>>

\* load_slither_data counting a critical-issues.json that does not load as
\* one critical issue
load_slither_data_FailClosed(summaryMd, criticalJson) ==
  LET critical_data == load_json_file(criticalJson)
  IN  [has_summary |-> Exists(summaryMd),
       critical_issues |->
         IF Exists(criticalJson)
         THEN (IF critical_data.kind = "json"
               THEN Len(critical_data.value) ELSE 1)
         ELSE 0,
       total_issues |-> 0,
       summary_content |-> ReadText(summaryMd)]

\* load_slither_data on slither-summary.md and critical-issues.json of the
\* Slither directory
load_slither_data(summaryMd, criticalJson) ==
  LET critical_data == load_json_file(criticalJson)
  IN  [has_summary |-> Exists(summaryMd),
       critical_issues |->
         IF /\ Exists(criticalJson)
            /\ critical_data.kind = "json"
            /\ Len(critical_data.value) > 0
         THEN Len(critical_data.value) ELSE 0,
       total_issues |-> 0,
       summary_content |-> ReadText(summaryMd)]

\* the number of records of mythril_data the loop counts under severity sev
\* ("Low" stands for the else branch)
CountSeverity(mythril_data, sev) ==
  Cardinality({i \in DOMAIN mythril_data :
     LET severity == Get(mythril_data[i], "severity", "Low")
     IN  IF sev = "Low" THEN severity \notin {"High", "Medium"}
         ELSE severity = sev})

\* load_mythril_data on the files of the Mythril directory
load_mythril_data(files) ==
  LET summary == files["mythril-summary.json"]
      loaded == load_json_file(summary)
      mythril_data == IF Exists(summary) /\ loaded.kind = "json"
                      THEN loaded.value ELSE <<>>
  IN  [has_results |-> Exists(summary),
       high_severity |-> CountSeverity(mythril_data, "High"),
       medium_severity |-> CountSeverity(mythril_data, "Medium"),
       low_severity |-> CountSeverity(mythril_data, "Low"),
       total_issues |-> Len(mythril_data),
       summary_content |-> ReadText(files["mythril-summary.md"])]

\* score after the three deductions of calculate_security_score
Deducted(slither_data, mythril_data) ==
  100 - slither_data.critical_issues * 25
      - mythril_data.high_severity * 15
      - mythril_data.medium_severity * 5

\* the issues list of calculate_security_score
ScoreIssues(slither_data, mythril_data) ==
  (IF slither_data.critical_issues > 0
   THEN <<Line("critical_slither", slither_data.critical_issues, "", "")>>
   ELSE <<>>)
  \o (IF mythril_data.high_severity > 0
      THEN <<Line("high_mythril", mythril_data.high_severity, "", "")>>
      ELSE <<>>)
  \o (IF mythril_data.medium_severity > 0
      THEN <<Line("medium", mythril_data.medium_severity, "", "")>>
      ELSE <<>>)

\* the if/elif chain on score, with strict comparisons
StatusOf_Strict(score) ==
  IF score > 95 THEN [status |-> "EXCELLENT", color |-> "green"]
  ELSE IF score > 85 THEN [status |-> "GOOD", color |-> "yellowgreen"]
  ELSE IF score > 70 THEN [status |-> "FAIR", color |-> "orange"]
  ELSE [status |-> "NEEDS_ATTENTION", color |-> "red"]

\* the if/elif chain of calculate_security_score on score
StatusOf(score) ==
  IF score >= 95 THEN [status |-> "EXCELLENT", color |-> "green"]
  ELSE IF score >= 85 THEN [status |-> "GOOD", color |-> "yellowgreen"]
  ELSE IF score >= 70 THEN [status |-> "FAIR", color |-> "orange"]
  ELSE [status |-> "NEEDS_ATTENTION", color |-> "red"]

Max(a, b) == IF a > b THEN a ELSE b

\* calculate_security_score returning the score without max(0, score)
calculate_security_score_NoClamp(slither_data, mythril_data) ==
  LET score == Deducted(slither_data, mythril_data)
  IN  [score |-> score,
       status |-> StatusOf(score).status,
       color |-> StatusOf(score).color,
       issues |-> ScoreIssues(slither_data, mythril_data)]

\* calculate_security_score: the status is taken from the score before
\* max(0, score)
calculate_security_score(slither_data, mythril_data) ==
  LET score == Deducted(slither_data, mythril_data)
  IN  [score |-> Max(0, score),
       status |-> StatusOf(score).status,
       color |-> StatusOf(score).color,
       issues |-> ScoreIssues(slither_data, mythril_data)]

\* the paragraph of the executive summary, chosen on security_score['score']
ExecutiveSummary(score) ==
  IF score >= 95 THEN "EXCELLENT SECURITY POSTURE"
  ELSE IF score >= 85 THEN "GOOD SECURITY POSTURE"
  ELSE IF score >= 70 THEN "FAIR SECURITY POSTURE"
  ELSE "SECURITY ATTENTION REQUIRED"

\* the writes of generate_security_summary to the output file; now is
\* datetime.now()
generate_security_summary(slither_data, mythril_data, now) ==
  LET security_score == calculate_security_score(slither_data, mythril_data)
  IN  <<Line("title", 0, "", ""),
        Line("generated", now, "", ""),
        Line("score", security_score.score, "", ""),
        Line("status", 0, security_score.status, ""),
        Line("executive_summary", 0, "", ""),
        Line("posture", 0, ExecutiveSummary(security_score.score), ""),
        Line("detailed_analysis", 0, "", ""),
        Line("slither", 0, "", "")>>
      \o (IF slither_data.has_summary
          THEN (IF slither_data.critical_issues = 0
                THEN <<Line("slither_no_critical", 0, "", "")>>
                ELSE <<Line("slither_critical", slither_data.critical_issues,
                            "", "")>>)
          ELSE <<Line("slither_not_available", 0, "", "")>>)
      \o <<Line("mythril", 0, "", "")>>
      \o (IF mythril_data.has_results
          THEN (IF mythril_data.total_issues = 0
                THEN <<Line("mythril_no_vulnerabilities", 0, "", "")>>
                ELSE <<Line("mythril_results", 0, "", ""),
                       Line("mythril_count", mythril_data.high_severity,
                            "High", ""),
                       Line("mythril_count", mythril_data.medium_severity,
                            "Medium", ""),
                       Line("mythril_count", mythril_data.low_severity,
                            "Low", "")>>)
          ELSE <<Line("mythril_not_available", 0, "", "")>>)
      \o <<Line("recommendations", 0, "", "")>>
      \o (IF security_score.issues # <<>>
          THEN <<Line("actions_required", 0, "", "")>>
               \o [i \in 1..Len(security_score.issues) |->
                     Line("address", i, security_score.issues[i].t,
                          ToString(security_score.issues[i].n))]
               \o <<Line("blank", 0, "", "")>>
          ELSE <<Line("no_actions_required", 0, "", "")>>)
      \o <<Line("best_practices", 0, "", ""),
           Line("architecture", 0, "", ""),
           Line("appendix", 0, "", "")>>

NoData ==
  [has_summary |-> FALSE, critical_issues |-> 0, total_issues |-> 0,
   summary_content |-> <<>>]

NoMythrilData ==
  [has_results |-> FALSE, high_severity |-> 0, medium_severity |-> 0,
   low_severity |-> 0, total_issues |-> 0, summary_content |-> <<>>]

NoScore == [score |-> 0, status |-> "", color |-> "", issues |-> <<>>]

VARIABLES
  reportFile,          \* the file at sys.argv[1] of process-slither
  slitherSummaryMd,    \* slither-summary.md in the report's directory
  criticalIssuesJson,  \* critical-issues.json in the report's directory
  slitherArgc,         \* len(sys.argv) of the last process-slither run
  categories,          \* categories of the last process-slither run
  slitherPc,           \* where the last process-slither run ended
  slitherExit,         \* its exit status (-1: never run)
  mythrilDirExists,    \* whether the directory at sys.argv[1] of process-mythril exists
  mythrilFiles,        \* the files of that directory, by name
  mythrilArgc,         \* len(sys.argv) of the last process-mythril run
  issues,              \* issues of the last process-mythril run
  mythrilCategories,   \* categories of the last process-mythril run
  mythrilPc,           \* where the last process-mythril run ended
  mythrilExit,         \* its exit status (-1: never run)
  slither_data,        \* slither_data of the last generate-security-summary run
  mythril_data,        \* mythril_data of that run
  security_score,      \* security_score of that run
  outputFile,          \* the file at --output
  summaryPc,           \* where the last generate-security-summary run ended
  summaryExit          \* its exit status (-1: never run)

slitherVars ==
  <<reportFile, slitherSummaryMd, criticalIssuesJson, slitherArgc,
    categories, slitherPc, slitherExit>>

mythrilVars ==
  <<mythrilDirExists, mythrilFiles, mythrilArgc, issues, mythrilCategories,
    mythrilPc, mythrilExit>>

summaryVars ==
  <<slither_data, mythril_data, security_score, outputFile, summaryPc,
    summaryExit>>

vars == <<slitherVars, mythrilVars, summaryVars>>

SlitherIdle ==
  /\ slitherSummaryMd = AbsentFile
  /\ criticalIssuesJson = AbsentFile
  /\ slitherArgc = 0
  /\ categories = EmptyCategories
  /\ slitherPc = "idle"
  /\ slitherExit = -1

\* no Slither report and no run of process-slither
NoSlither == reportFile = AbsentFile /\ SlitherIdle

MythrilIdle ==
  /\ mythrilArgc = 0
  /\ issues = <<>>
  /\ mythrilCategories = EmptyMythrilCategories
  /\ mythrilPc = "idle"
  /\ mythrilExit = -1

\* no Mythril reports directory and no run of process-mythril
NoMythril ==
  /\ mythrilDirExists = FALSE
  /\ mythrilFiles = [n \in DirNames |-> AbsentFile]
  /\ MythrilIdle

\* no run of generate-security-summary
SummaryIdle ==
  /\ slither_data = NoData
  /\ mythril_data = NoMythrilData
  /\ security_score = NoScore
  /\ outputFile = AbsentFile
  /\ summaryPc = "idle"
  /\ summaryExit = -1

\* main of process-slither.py, run with argc = len(sys.argv)
RunSlither(argc) ==
  LET results == load_slither_report(reportFile)
      cat == categorize_findings(results)
      md == generate_summary_markdown(cat.categories)
  IN
  /\ slitherArgc' = argc
  /\ UNCHANGED <<reportFile, mythrilVars, summaryVars>>
  /\ IF argc # 2
     THEN /\ slitherPc' = "usage"
          /\ slitherExit' = 1
          /\ categories' = EmptyCategories
          /\ UNCHANGED <<slitherSummaryMd, criticalIssuesJson>>
     ELSE IF ~Exists(reportFile)
     THEN /\ slitherPc' = "not_found"
          /\ slitherExit' = 1
          /\ categories' = EmptyCategories
          /\ UNCHANGED <<slitherSummaryMd, criticalIssuesJson>>
     ELSE IF cat.raised
     THEN \* KeyError in categorize_findings: traceback, status 1
          /\ slitherPc' = "raised_categorize"
          /\ slitherExit' = 1
          /\ categories' = EmptyCategories
          /\ UNCHANGED <<slitherSummaryMd, criticalIssuesJson>>
     ELSE IF md.raised
     THEN \* KeyError in generate_summary_markdown: the with block closes
          \* the file with the writes done so far; traceback, status 1
          /\ slitherPc' = "raised_summary"
          /\ slitherExit' = 1
          /\ categories' = cat.categories
          /\ slitherSummaryMd' = TextFile(md.lines)
          /\ UNCHANGED criticalIssuesJson
     ELSE /\ slitherPc' = "exit"
          /\ categories' = cat.categories
          /\ slitherSummaryMd' = TextFile(md.lines)
          /\ criticalIssuesJson' = save_critical_issues(cat.categories)
          /\ slitherExit' = ExitCode(cat.categories)

\* main of process-mythril.py, run with argc = len(sys.argv); paths is the
\* list glob.glob returns
RunMythril(argc, paths) ==
  LET loaded == load_mythril_reports(mythrilFiles, paths, <<>>)
      cats == categorize_mythril_findings(loaded, EmptyMythrilCategories)
  IN
  /\ mythrilArgc' = argc
  /\ UNCHANGED <<mythrilDirExists, slitherVars, summaryVars>>
  /\ IF argc # 2
     THEN /\ mythrilPc' = "usage"
          /\ mythrilExit' = 1
          /\ issues' = <<>>
          /\ mythrilCategories' = EmptyMythrilCategories
          /\ UNCHANGED mythrilFiles
     ELSE IF ~mythrilDirExists
     THEN /\ mythrilPc' = "not_found"
          /\ mythrilExit' = 1
          /\ issues' = <<>>
          /\ mythrilCategories' = EmptyMythrilCategories
          /\ UNCHANGED mythrilFiles
     ELSE \* main returns: status 0
          /\ mythrilPc' = "done"
          /\ mythrilExit' = 0
          /\ issues' = loaded
          /\ mythrilCategories' = cats
          /\ mythrilFiles' = generate_mythril_summary(mythrilFiles, cats)

\* main of generate-security-summary.py; argsOk: the three required flags
\* are given (argparse exits with status 2 otherwise); now is datetime.now()
RunSummary(argsOk, now) ==
  LET sd == load_slither_data(slitherSummaryMd, criticalIssuesJson)
      md == load_mythril_data(mythrilFiles)
  IN
  /\ UNCHANGED <<slitherVars, mythrilVars>>
  /\ IF ~argsOk
     THEN /\ summaryPc' = "usage"
          /\ summaryExit' = 2
          /\ slither_data' = NoData
          /\ mythril_data' = NoMythrilData
          /\ security_score' = NoScore
          /\ UNCHANGED outputFile
     ELSE /\ summaryPc' = "done"
          /\ summaryExit' = 0
          /\ slither_data' = sd
          /\ mythril_data' = md
          /\ security_score' = calculate_security_score(sd, md)
          /\ outputFile' = TextFile(generate_security_summary(sd, md, now))

InitSlither ==
  /\ reportFile \in SlitherReports
  /\ SlitherIdle
  /\ NoMythril
  /\ SummaryIdle

NextSlither == \E argc \in 1..3 : RunSlither(argc)

SpecSlither == InitSlither /\ [][NextSlither]_vars

InitMythril ==
  /\ NoSlither
  /\ SummaryIdle
  /\ \/ /\ mythrilDirExists = FALSE
        /\ mythrilFiles = [n \in DirNames |-> AbsentFile]
     \/ /\ mythrilDirExists = TRUE
        /\ \E a, b \in MythrilReports :
             mythrilFiles = [n \in DirNames |->
                               IF n = "mythril-a.json" THEN a
                               ELSE IF n = "mythril-b.json" THEN b
                               ELSE AbsentFile]
  /\ MythrilIdle

NextMythril ==
  \E argc \in 1..3 : \E paths \in Glob(mythrilFiles) : RunMythril(argc, paths)

SpecMythril == InitMythril /\ [][NextMythril]_vars

\* the artifacts an earlier pipeline stage may have left for the aggregator
CriticalRecord ==
  [impact |-> "High", confidence |-> "high", check |-> "reentrancy-eth",
   description |-> "Reentrancy in pay()"]

CriticalFiles ==
  {AbsentFile, GarbageFile}
  \cup {JsonArray([i \in 1..n |-> CriticalRecord]) : n \in 0..MaxCritical}

\* mythril-summary.json with h High, m Medium and l Low records, in the
\* order process-mythril writes them
SummaryOf(h, m, l) ==
  JsonArray([i \in 1..(h + m + l) |->
    LET sev == IF i <= h THEN "High" ELSE IF i <= h + m THEN "Medium" ELSE "Low"
    IN  SummaryRecord(sev, FullIssue(sev))])

SummaryFiles ==
  {AbsentFile, GarbageFile}
  \cup {SummaryOf(h, m, l) :
          <<h, m, l>> \in {t \in (0..MaxSummary) \X (0..MaxSummary) \X (0..MaxSummary) :
                            t[1] + t[2] + t[3] <= MaxSummary}}

InitSummary ==
  /\ reportFile = AbsentFile
  /\ slitherSummaryMd \in
       {AbsentFile, TextFile(generate_summary_markdown(EmptyCategories).lines)}
  /\ criticalIssuesJson \in CriticalFiles
  /\ slitherArgc = 0
  /\ categories = EmptyCategories
  /\ slitherPc = "idle"
  /\ slitherExit = -1
  /\ mythrilDirExists = TRUE
  /\ \E json \in SummaryFiles :
       \E md \in {AbsentFile, TextFile(MythrilMarkdown(EmptyMythrilCategories))} :
         mythrilFiles = [n \in DirNames |->
                           IF n = "mythril-summary.json" THEN json
                           ELSE IF n = "mythril-summary.md" THEN md
                           ELSE AbsentFile]
  /\ MythrilIdle
  /\ SummaryIdle

NextSummary ==
  \E argsOk \in BOOLEAN : \E now \in 1..MaxTime : RunSummary(argsOk, now)

SpecSummary == InitSummary /\ [][NextSummary]_vars

\* the whole pipeline: the CI job runs the three scripts, with the right
\* arguments, on the directories the scanners wrote
PipelineDetectors ==
  {[impact |-> "High", confidence |-> "high", check |-> "reentrancy-eth",
    description |-> "Reentrancy in pay()"],
   [impact |-> "High", confidence |-> "HIGH", check |-> "reentrancy-eth"],
   [impact |-> "Medium", confidence |-> "Low", check |-> "reentrancy-eth",
    description |-> "Reentrancy in pay()"]}

PipelineReports ==
  {AbsentFile, GarbageFile, JsonObject([results |-> EmptyDict])}
  \cup {JsonObject([results |-> [detectors |-> ds]]) :
          ds \in SeqUpTo(PipelineDetectors, MaxDetectors)}

PipelineIssues ==
  {FullIssue("High"), BareIssue("High"), FullIssue("Medium"),
   BareIssue("Critical")}

\* the contents of a Mythril report of the pipeline with at most n issues
PipelineMythrilReports(n) ==
  {AbsentFile, GarbageFile}
  \cup {JsonObject([issues |-> is]) : is \in SeqUpTo(PipelineIssues, n)}

Init ==
  /\ reportFile \in PipelineReports
  /\ SlitherIdle
  /\ mythrilDirExists = TRUE
  /\ \E a \in PipelineMythrilReports(MaxIssues), b \in PipelineMythrilReports(1) :
       mythrilFiles = [n \in DirNames |->
                         IF n = "mythril-a.json" THEN a
                         ELSE IF n = "mythril-b.json" THEN b
                         ELSE AbsentFile]
  /\ MythrilIdle
  /\ SummaryIdle

Next ==
  \/ RunSlither(2)
  \/ \E paths \in Glob(mythrilFiles) : RunMythril(2, paths)
  \/ \E now \in 1..MaxTime : RunSummary(TRUE, now)

Spec == Init /\ [][Next]_vars

\* ------------------------------------------------------------------------
\* Claims about process-slither.py (checked under SpecSlither)
\* ------------------------------------------------------------------------
Tiers == {"critical", "high", "medium", "low", "informational"}

Range(s) == {s[i] : i \in DOMAIN s}

Count(s, x) == Cardinality({i \in DOMAIN s : s[i] = x})

\* results.detectors of the report file (empty when there is no such list)
InputDetectors ==
  IF /\ reportFile.kind = "json"
     /\ Has(reportFile.value, "results")
     /\ Has(reportFile.value["results"], "detectors")
  THEN reportFile.value["results"]["detectors"]
  ELSE <<>>

LowerImpact(d) == Lower(Get(d, "impact", ""))
LowerConfidence(d) == Lower(Get(d, "confidence", ""))

HighHigh(d) == LowerImpact(d) = "high" /\ LowerConfidence(d) = "high"

\* the table of the specification, section 4.1
TableTier(i, c) ==
  CASE <<i, c>> = <<"high", "high">> -> "critical"
    [] <<i, c>> \in {<<"high", "medium">>, <<"medium", "high">>} -> "high"
    [] <<i, c>> \in {<<"medium", "medium">>, <<"high", "low">>} -> "medium"
    [] /\ (i = "low" \/ c = "low")
       /\ <<i, c>> \notin {<<"high", "low">>} -> "low"
    [] OTHER -> "informational"

\* the last run of process-slither computed the categories
Categorized == slitherPc \in {"exit", "raised_summary"}

\* C1: every detector of results.detectors is in exactly one of the five
\* tiers, the one the table gives for its lower-cased (impact, confidence);
\* it is critical iff both are 'high'; high impact / low confidence is
\* medium and not low; no detector is lost or duplicated.
C1_OneTierPerDetector ==
  Categorized =>
    /\ TotalFindings(categories) = Len(InputDetectors)
    /\ \A i \in DOMAIN InputDetectors :
         LET d == InputDetectors[i]
         IN  /\ Cardinality({t \in Tiers : d \in Range(categories[t])}) = 1
             /\ d \in Range(categories[TableTier(LowerImpact(d),
                                                 LowerConfidence(d))])
             /\ Count(categories["critical"], d) + Count(categories["high"], d)
                + Count(categories["medium"], d) + Count(categories["low"], d)
                + Count(categories["informational"], d)
                = Count(InputDetectors, d)
             /\ (d \in Range(categories["critical"]) <=> HighHigh(d))
             /\ (LowerImpact(d) = "high" /\ LowerConfidence(d) = "low"
                   => /\ d \in Range(categories["medium"])
                      /\ d \notin Range(categories["low"]))

\* a run that put a 'High'/'HIGH' detector in critical and a high/low one
\* in medium
C1_Witness ==
  /\ slitherPc = "exit"
  /\ Len(categories["critical"]) = 1
  /\ Get(categories["critical"][1], "confidence", "") = "HIGH"
  /\ Len(categories["medium"]) = 1
  /\ Get(categories["medium"][1], "impact", "") = "High"
  /\ Get(categories["medium"][1], "confidence", "") = "Low"

\* a listed (critical, high or medium) detector without check or description
\* makes generate_summary_markdown raise KeyError
Unlistable(d) ==
  /\ TierOfDetector(d) \in {"critical", "high", "medium"}
  /\ ~(Has(d, "check") /\ Has(d, "description"))

\* the report has a results object without a detectors list
ResultsWithoutDetectors ==
  /\ reportFile.kind = "json"
  /\ Has(reportFile.value, "results")
  /\ ~Has(reportFile.value["results"], "detectors")

\* the last run raised an uncaught KeyError
RaisesKeyError ==
  \/ ResultsWithoutDetectors
  \/ \E i \in DOMAIN InputDetectors : Unlistable(InputDetectors[i])

Ran == slitherPc # "idle"

\* C2 as stated: the run fails iff the critical tier is non-empty, every
\* other run exits with 0.
C2_FailsIffCritical ==
  Ran => /\ (slitherExit # 0 <=> categories["critical"] # <<>>)
         /\ (categories["critical"] = <<>> => slitherExit = 0)

\* C2 amended: the run exits with 1 iff the report has a high/high
\* detector, or the argument count is wrong, or the report file is missing,
\* or the run raises KeyError; every other run exits with 0.
C2_FailsIffCriticalOrAborted ==
  Ran =>
    /\ slitherExit \in {0, 1}
    /\ slitherExit = 1 <=>
         \/ slitherArgc # 2
         \/ ~Exists(reportFile)
         \/ RaisesKeyError
         \/ \E i \in DOMAIN InputDetectors : HighHigh(InputDetectors[i])

\* a run on a missing report file, and status 1 without any critical finding
C2_Witness ==
  /\ slitherPc = "not_found"
  /\ slitherArgc = 2
  /\ slitherExit = 1
  /\ categories["critical"] = <<>>

\* C3: critical-issues.json, once written, is the array of exactly the
\* high/high detectors of the report, unchanged and in input order (so of
\* that length), and a run on a report with a high/high detector exits
\* with 1.
C3_CriticalIssuesJson ==
  /\ Exists(criticalIssuesJson) =>
       /\ criticalIssuesJson = JsonArray(SelectSeq(InputDetectors, HighHigh))
       /\ Len(criticalIssuesJson.value)
            = Cardinality({i \in DOMAIN InputDetectors :
                             HighHigh(InputDetectors[i])})
  /\ (Ran /\ \E i \in DOMAIN InputDetectors : HighHigh(InputDetectors[i]))
       => slitherExit = 1

\* a run that wrote two different critical findings
C3_Witness ==
  /\ slitherPc = "exit"
  /\ slitherExit = 1
  /\ criticalIssuesJson.kind = "json"
  /\ Len(criticalIssuesJson.value) = 2
  /\ criticalIssuesJson.value[1] # criticalIssuesJson.value[2]

\* the summary says that no security issues were found
SaysNoIssues(md) ==
  /\ md.kind = "text"
  /\ \E i \in DOMAIN md.lines : md.lines[i].t = "no_issues"

\* C4 as stated: a run on an existing report that cannot be parsed, or has
\* no results key, or has no detector ends with all tiers empty, a summary
\* saying that no issues were found, critical-issues.json = [] and status 0.
C4_EmptyReportSucceeds ==
  (/\ Ran
   /\ slitherArgc = 2
   /\ Exists(reportFile)
   /\ \/ reportFile.kind = "garbage"
      \/ ~Has(reportFile.value, "results")
      \/ Len(InputDetectors) = 0)
  => /\ categories = EmptyCategories
     /\ SaysNoIssues(slitherSummaryMd)
     /\ criticalIssuesJson = JsonArray(<<>>)
     /\ slitherExit = 0

\* C5 as stated: status 1 when the file is missing, the report cannot be
\* parsed, the argument count is wrong or critical findings are present;
\* status 0 exactly when there is no critical finding and none of these.
C5_ExitCodes ==
  Ran =>
    LET missing == ~Exists(reportFile)
        unparsable == reportFile.kind = "garbage"
        badArgs == slitherArgc # 2
        critical == \E i \in DOMAIN InputDetectors : HighHigh(InputDetectors[i])
    IN  /\ (missing => slitherExit = 1)
        /\ (unparsable => slitherExit = 1)
        /\ (badArgs => slitherExit = 1)
        /\ (critical => slitherExit = 1)
        /\ (slitherExit = 0
              <=> ~critical /\ ~missing /\ ~unparsable /\ ~badArgs)

\* C5 amended: status 1 when the file is missing, the argument count is
\* wrong, critical findings are present or the run raises KeyError; a
\* report that cannot be parsed is read as {} and, with the right argument
\* count, gives status 0; status 0 exactly when main reaches its last
\* statement with an empty critical tier.
C5_ExitCodesParseErrorIsEmpty ==
  Ran =>
    /\ (~Exists(reportFile) => slitherExit = 1)
    /\ (slitherArgc # 2 => slitherExit = 1)
    /\ (categories["critical"] # <<>> => slitherExit = 1)
    /\ (slitherArgc = 2 /\ Exists(reportFile) /\ RaisesKeyError
          => slitherExit = 1)
    /\ (slitherArgc = 2 /\ reportFile.kind = "garbage"
          => slitherExit = 0 /\ slitherPc = "exit")
    /\ (slitherExit = 0 <=>
          /\ slitherArgc = 2
          /\ Exists(reportFile)
          /\ ~RaisesKeyError
          /\ categories["critical"] = <<>>
          /\ slitherPc = "exit")

\* a run on a report that is not valid JSON, ending with status 0
C5_Witness ==
  /\ slitherPc = "exit"
  /\ reportFile.kind = "garbage"
  /\ slitherArgc = 2
  /\ slitherExit = 0
  /\ criticalIssuesJson = JsonArray(<<>>)

\* ------------------------------------------------------------------------
\* Claims about process-mythril.py (checked under SpecMythril)
\* ------------------------------------------------------------------------
Groups == {"High", "Medium", "Low"}

MythrilDone == mythrilPc = "done"

\* the group the specification gives to an issue, section 4.2
LabelGroup(issue) ==
  IF Has(issue, "severity") /\ issue["severity"] \in Groups
  THEN issue["severity"] ELSE "Low"

SummaryJson == mythrilFiles["mythril-summary.json"]

\* C6: every loaded issue is in exactly one of High, Medium, Low: the group
\* of its label if the label is exactly one of the three, Low otherwise;
\* mythril-summary.json has one record per loaded issue, and as many
\* records of each severity as issues placed in that group.
C6_GroupsAndSummary ==
  MythrilDone =>
    /\ Len(mythrilCategories["High"]) + Len(mythrilCategories["Medium"])
         + Len(mythrilCategories["Low"]) = Len(issues)
    /\ \A i \in DOMAIN issues :
         LET x == issues[i]
         IN  /\ Cardinality({g \in Groups : x \in Range(mythrilCategories[g])}) = 1
             /\ x \in Range(mythrilCategories[LabelGroup(x)])
             /\ Count(mythrilCategories["High"], x)
                  + Count(mythrilCategories["Medium"], x)
                  + Count(mythrilCategories["Low"], x) = Count(issues, x)
    /\ SummaryJson.kind = "json" /\ SummaryJson.type = "array"
    /\ Len(SummaryJson.value) = Len(issues)
    /\ \A g \in Groups :
         LET records == {i \in DOMAIN SummaryJson.value :
                           SummaryJson.value[i]["severity"] = g}
         IN  /\ Cardinality(records) = Len(mythrilCategories[g])
             /\ Cardinality(records)
                  = Cardinality({i \in DOMAIN issues : LabelGroup(issues[i]) = g})
    /\ \A i \in DOMAIN SummaryJson.value :
         SummaryJson.value[i]["severity"] \in Groups

\* a run that loaded a 'Critical' issue and an issue without severity and
\* wrote both as Low
C6_Witness ==
  /\ MythrilDone
  /\ Len(issues) = 2
  /\ \E i \in DOMAIN issues : Get(issues[i], "severity", "") = "Critical"
  /\ \E i \in DOMAIN issues : ~Has(issues[i], "severity")
  /\ Len(mythrilCategories["Low"]) = 2
  /\ Len(SummaryJson.value) = 2
  /\ \A i \in DOMAIN SummaryJson.value : SummaryJson.value[i]["severity"] = "Low"

\* the issues list of a file of the directory, empty when it has none
IssuesOfFile(n) ==
  IF mythrilFiles[n].kind = "json" /\ InJson("issues", mythrilFiles[n])
  THEN mythrilFiles[n].value["issues"] ELSE <<>>

\* C7: a run on an existing directory loads exactly the issues of the
\* mythril-*.json files that parse (a file that does not parse gives none
\* and takes none away), and ends with status 0 whatever it found.
C7_SkipsBadFilesNeverFails ==
  /\ MythrilDone =>
       \A x \in Issues :
         Count(issues, x)
           = Count(IssuesOfFile("mythril-a.json"), x)
             + Count(IssuesOfFile("mythril-b.json"), x)
             + Count(IssuesOfFile("mythril-summary.json"), x)
  /\ (mythrilPc # "idle" /\ mythrilArgc = 2 /\ mythrilDirExists)
       => MythrilDone /\ mythrilExit = 0

\* a run on a directory with a file that does not parse and a file with a
\* High issue: the issue is loaded and the status is 0
C7_Witness ==
  /\ MythrilDone
  /\ \E n \in ReportNames : mythrilFiles[n].kind = "garbage"
  /\ Len(issues) = 1
  /\ Len(mythrilCategories["High"]) = 1
  /\ mythrilExit = 0

\* ------------------------------------------------------------------------
\* Claims about generate-security-summary.py (checked under SpecSummary)
\* ------------------------------------------------------------------------
SummaryDone == summaryPc = "done"

\* max(0, 100 - 25*c - 15*h - 5*m)
ClampedScore(c, h, m) ==
  LET raw == 100 - 25 * c - 15 * h - 5 * m
  IN  IF raw < 0 THEN 0 ELSE raw

\* calculate_security_score on the counts c, h, m
ScoreFor(c, h, m) ==
  calculate_security_score(
    [slither_data EXCEPT !.critical_issues = c],
    [mythril_data EXCEPT !.high_severity = h, !.medium_severity = m]).score

\* C8: the score is max(0, 100 - 25*c - 15*h - 5*m) for the counts c, h, m
\* of the run, an integer of [0,100]; one more of c, h or m never raises
\* it; the score of (0,0,0) is 100.
C8_Score ==
  SummaryDone =>
    LET c == slither_data.critical_issues
        h == mythril_data.high_severity
        m == mythril_data.medium_severity
    IN  /\ c \in Nat /\ h \in Nat /\ m \in Nat
        /\ security_score.score = ClampedScore(c, h, m)
        /\ security_score.score \in 0..100
        /\ ScoreFor(c + 1, h, m) <= security_score.score
        /\ ScoreFor(c, h + 1, m) <= security_score.score
        /\ ScoreFor(c, h, m + 1) <= security_score.score
        /\ ScoreFor(0, 0, 0) = 100

\* a run whose deductions exceed 100: the score is clamped to 0
C8_Witness ==
  /\ SummaryDone
  /\ Deducted(slither_data, mythril_data) < 0
  /\ mythril_data.high_severity > 0
  /\ slither_data.critical_issues > 0
  /\ security_score.score = 0

\* the bands of the specification, section 4.3
Band(score) ==
  CASE score >= 95 -> "EXCELLENT"
    [] score >= 85 /\ score < 95 -> "GOOD"
    [] score >= 70 /\ score < 85 -> "FAIR"
    [] score < 70 -> "NEEDS_ATTENTION"

PostureOfBand(band) ==
  CASE band = "EXCELLENT" -> "EXCELLENT SECURITY POSTURE"
    [] band = "GOOD" -> "GOOD SECURITY POSTURE"
    [] band = "FAIR" -> "FAIR SECURITY POSTURE"
    [] band = "NEEDS_ATTENTION" -> "SECURITY ATTENTION REQUIRED"

\* C9: the status is the band of the returned (clamped) score, exactly one
\* band holds of every score of [0,100], (1,0,0) gives 75 and FAIR, (0,2,3)
\* gives 55 and NEEDS_ATTENTION, and the executive-summary paragraph of the
\* report is the one of the same band.
C9_StatusIsBandOfScore ==
  /\ \A score \in 0..100 :
       Cardinality({b \in {"EXCELLENT", "GOOD", "FAIR", "NEEDS_ATTENTION"} :
                      \/ b = "EXCELLENT" /\ score >= 95
                      \/ b = "GOOD" /\ score >= 85 /\ score < 95
                      \/ b = "FAIR" /\ score >= 70 /\ score < 85
                      \/ b = "NEEDS_ATTENTION" /\ score < 70}) = 1
  /\ SummaryDone =>
       LET c == slither_data.critical_issues
           h == mythril_data.high_severity
           m == mythril_data.medium_severity
       IN  /\ security_score.status = Band(security_score.score)
           /\ (c = 1 /\ h = 0 /\ m = 0
                 => security_score.score = 75 /\ security_score.status = "FAIR")
           /\ (c = 0 /\ h = 2 /\ m = 3
                 => /\ security_score.score = 55
                    /\ security_score.status = "NEEDS_ATTENTION")
           /\ \E i \in DOMAIN outputFile.lines :
                /\ outputFile.lines[i].t = "status"
                /\ outputFile.lines[i].x = Band(security_score.score)
           /\ \A i \in DOMAIN outputFile.lines :
                outputFile.lines[i].t = "posture"
                  => outputFile.lines[i].x
                       = PostureOfBand(Band(security_score.score))
           /\ \E i \in DOMAIN outputFile.lines :
                outputFile.lines[i].t = "posture"

\* the run of the example (0,2,3): 55 and NEEDS_ATTENTION
C9_Witness ==
  /\ SummaryDone
  /\ slither_data.critical_issues = 0
  /\ mythril_data.high_severity = 2
  /\ mythril_data.medium_severity = 3
  /\ security_score.score = 55
  /\ security_score.status = "NEEDS_ATTENTION"

Unloadable(file) == file.kind \in {"absent", "garbage"}

\* C10: a run of the aggregator with its three flags ends with status 0 and
\* the report written; critical-issues.json absent or not loadable gives a
\* critical count of 0, mythril-summary.json absent or not loadable gives
\* high, medium and low counts of 0, and with both absent the score is 100
\* and the status EXCELLENT.
C10_MissingInputsCountZero ==
  /\ summaryPc \in {"idle", "usage", "done"}
  /\ SummaryDone =>
       /\ summaryExit = 0
       /\ outputFile.kind = "text"
       /\ \E i \in DOMAIN outputFile.lines :
            /\ outputFile.lines[i].t = "score"
            /\ outputFile.lines[i].n = security_score.score
       /\ Unloadable(criticalIssuesJson) => slither_data.critical_issues = 0
       /\ Unloadable(SummaryJson) =>
            /\ mythril_data.high_severity = 0
            /\ mythril_data.medium_severity = 0
            /\ mythril_data.low_severity = 0
       /\ (~Exists(criticalIssuesJson) /\ ~Exists(SummaryJson)) =>
            /\ security_score.score = 100
            /\ security_score.status = "EXCELLENT"

\* a run with critical-issues.json not loadable and mythril-summary.json
\* absent: score 100, status 0
C10_Witness ==
  /\ SummaryDone
  /\ criticalIssuesJson.kind = "garbage"
  /\ ~Exists(SummaryJson)
  /\ security_score.score = 100
  /\ summaryExit = 0
  /\ outputFile.kind = "text"

\* ------------------------------------------------------------------------
\* Claims about the pipeline (checked under Spec)
\* ------------------------------------------------------------------------
\* the same elements, each as many times, in any order
SameBag(s, t) ==
  \A x \in Range(s) \cup Range(t) : Count(s, x) = Count(t, x)

\* C11 as stated: a second run of a processor on the same inputs gives the
\* same artifacts: process-mythril, run again on its directory (which now
\* holds its own mythril-summary.json), loads the same issues and leaves
\* mythril-summary.json and mythril-summary.md as they were; process-slither,
\* run again, leaves slither-summary.md and critical-issues.json as they
\* were and ends with the same status.
C11_RerunSameArtifacts ==
  [][/\ mythrilPc = "done" =>
          /\ SameBag(issues', issues)
          /\ mythrilFiles'["mythril-summary.json"]
               = mythrilFiles["mythril-summary.json"]
          /\ mythrilFiles'["mythril-summary.md"]
               = mythrilFiles["mythril-summary.md"]
          /\ mythrilExit' = mythrilExit
     /\ slitherPc # "idle" =>
          /\ slitherSummaryMd' = slitherSummaryMd
          /\ criticalIssuesJson' = criticalIssuesJson
          /\ slitherExit' = slitherExit]_vars

\* the number of loaded issues whose severity label is exactly sev
Labelled(sev) ==
  Cardinality({i \in DOMAIN issues :
                 Has(issues[i], "severity") /\ issues[i]["severity"] = sev})

\* the number of high/high detectors of the report
NumHighHigh ==
  Cardinality({i \in DOMAIN InputDetectors : HighHigh(InputDetectors[i])})

\* C12: a run of the aggregator after process-slither and process-mythril
\* have both run to completion reads back the scanner counts: the critical
\* count is the number of high/high detectors, the high and medium counts
\* are the numbers of loaded issues labelled 'High' and 'Medium', the low
\* count is the number of all the other loaded issues, and the score, also
\* as written to the report, is max(0, 100 - 25*c - 15*h - 5*m) of these.
C12_PipelineCounts ==
  [][(/\ slitherPc = "exit"
      /\ mythrilPc = "done"
      /\ summaryVars' # summaryVars)
     => /\ summaryPc' = "done"
        /\ slither_data'.critical_issues = NumHighHigh
        /\ mythril_data'.high_severity = Labelled("High")
        /\ mythril_data'.medium_severity = Labelled("Medium")
        /\ mythril_data'.low_severity
             = Len(issues) - Labelled("High") - Labelled("Medium")
        /\ Len(issues)
             = Len(IssuesOfFile("mythril-a.json"))
               + Len(IssuesOfFile("mythril-b.json"))
        /\ security_score'.score
             = ClampedScore(NumHighHigh, Labelled("High"), Labelled("Medium"))
        /\ \E i \in DOMAIN outputFile'.lines :
             /\ outputFile'.lines[i].t = "score"
             /\ outputFile'.lines[i].n
                  = ClampedScore(NumHighHigh, Labelled("High"),
                                 Labelled("Medium"))]_vars

\* the aggregator has run on the artifacts of completed runs of both
\* processors: one high/high detector, one 'High' issue and one issue
\* labelled 'Critical', counted as low; score 60
C12_Witness ==
  /\ slitherPc = "exit"
  /\ mythrilPc = "done"
  /\ summaryPc = "done"
  /\ NumHighHigh = 1
  /\ Labelled("High") = 1
  /\ \E i \in DOMAIN issues : Get(issues[i], "severity", "") = "Critical"
  /\ slither_data.critical_issues = 1
  /\ mythril_data.high_severity = 1
  /\ mythril_data.low_severity = 1
  /\ security_score.score = 60

====
